---------------------------- MODULE Spec2Model ----------------------------
(***************************************************************************)
(* A model of yomisplit (src/yomisplit/__init__.py): splitting the reading *)
(* of a Japanese word by kanji.                                            *)
(*                                                                         *)
(* Characters are written as short ASCII names: hiragana by their romaji   *)
(* ("ko" = こ, "go" = ご, "ku" = く, "xtu" = っ, "no" = の ...), kanji as   *)
(* "K1", "K2", the repetition mark 々 as "noma", the punctuation mark ・    *)
(* as "dot" and the digit 2 as "2".  A string is a sequence of characters. *)
(*                                                                         *)
(* A regular expression is modelled by its structure: an atom is a         *)
(* character class with an optional flag ([くっ]?), an alternative is a      *)
(* sequence of atoms, a group is a sequence of alternatives (a|b|c) and a  *)
(* pattern is a sequence of groups followed by the anchor $.  Matching is  *)
(* the backtracking search of the regex engine, alternatives and greedy    *)
(* or lazy quantifiers tried in priority order; readings hold no newline,  *)
(* so $ is the end of the string.                                          *)
(***************************************************************************)
EXTENDS Integers, Sequences, FiniteSets, TLC

VARIABLES
    ONYOMI,        \* dict kanji -> list of on-yomi      (yomisplit.yomi)
    KUNYOMI,       \* dict kanji -> list of kun-yomi     (yomisplit.yomi)
    JOYO_ONYOMI,   \* dict kanji -> joyo on-yomi         (yomisplit.joyokanji)
    JOYO_KUNYOMI,  \* dict kanji -> joyo kun-yomi        (yomisplit.joyokanji)
    pc,            \* "idle": no call in progress; "done": a call has returned
    op,            \* the function called last
    args,          \* its arguments
    result         \* its outcome: a returned value or a raised exception

vars == <<ONYOMI, KUNYOMI, JOYO_ONYOMI, JOYO_KUNYOMI, pc, op, args, result>>
tables == <<ONYOMI, KUNYOMI, JOYO_ONYOMI, JOYO_KUNYOMI>>

---------------------------------------------------------------------------
(* Bounds of the model *)

MaxYomis == 2        \* longest candidate list of a table entry
MaxReadingLen == 2   \* longest reading given to canonical_reading / is_joyo

---------------------------------------------------------------------------
(* Generic helpers *)

\* all sequences over S of length 0..n
SeqsUpTo(S, n) == UNION {[1..k -> S] : k \in 0..n}

\* lists without repetition over S of length 1..n
ListsUpTo(S, n) ==
    {l \in SeqsUpTo(S, n) : Len(l) >= 1 /\ \A i, j \in 1..Len(l) : l[i] = l[j] => i = j}

\* dicts from a subset of keys K to values in V
Dicts(K, V) == UNION {[D -> V] : D \in SUBSET K}

Returned(v) == [status |-> "return", value |-> v]
Raised(e) == [status |-> "raise", value |-> e]
NoResult == [status |-> "none", value |-> "none"]

---------------------------------------------------------------------------
(* DAKUON: the first syllable's equivalence class *)

DAKUON ==
    ("ka" :> {"ka", "ga"}) @@ ("ki" :> {"ki", "gi"}) @@ ("ku" :> {"ku", "gu"}) @@
    ("ke" :> {"ke", "ge"}) @@ ("ko" :> {"ko", "go"}) @@
    ("sa" :> {"sa", "za"}) @@ ("si" :> {"si", "zi"}) @@ ("su" :> {"su", "zu"}) @@
    ("se" :> {"se", "ze"}) @@ ("so" :> {"so", "zo"}) @@
    ("ta" :> {"ta", "da"}) @@ ("ti" :> {"ti", "di", "zi"}) @@
    ("tu" :> {"tu", "du", "zu"}) @@
    ("te" :> {"te", "de"}) @@ ("to" :> {"to", "do"}) @@
    ("ha" :> {"ha", "ba", "pa"}) @@ ("hi" :> {"hi", "bi", "pi"}) @@
    ("hu" :> {"hu", "bu", "pu"}) @@ ("he" :> {"he", "be", "pe"}) @@
    ("ho" :> {"ho", "bo", "po"})

\* syllables that may geminate at the end of a reading ['つ', 'ち', 'く']
SokuonFinals == {"tu", "ti", "ku"}

---------------------------------------------------------------------------
(* Regular expressions *)

Atom(S, optional) == [set |-> S, opt |-> optional]
Lit(ch) == Atom({ch}, FALSE)

\* The end positions, in the engine's priority order, of the matches of
\* atoms[k..] against s from position p.  An optional atom is greedy: it is
\* tried first, then skipped.
RECURSIVE AtomEnds(_, _, _, _)
AtomEnds(atoms, k, s, p) ==
    IF k > Len(atoms) THEN <<p>>
    ELSE LET a == atoms[k]
             taken == IF p <= Len(s) /\ s[p] \in a.set
                      THEN AtomEnds(atoms, k + 1, s, p + 1) ELSE <<>>
             skipped == IF a.opt THEN AtomEnds(atoms, k + 1, s, p) ELSE <<>>
         IN taken \o skipped

\* re.compile('^' + reg + '$').match(s) for a single alternative
FullMatch(atoms, s) ==
    \E i \in 1..Len(AtomEnds(atoms, 1, s, 1)) : AtomEnds(atoms, 1, s, 1)[i] = Len(s) + 1

---------------------------------------------------------------------------
(* japanese_matchreg / japanese_match *)

japanese_matchreg_onlysmall(hiragana) ==
    LET n == Len(hiragana)
        first == hiragana[1]
        head == IF first \in DOMAIN DAKUON THEN Atom(DAKUON[first], FALSE) ELSE Lit(first)
        middle == [i \in 1..(IF n >= 2 THEN n - 2 ELSE 0) |-> Lit(hiragana[i + 1])]
        tail == IF n > 1
                THEN IF hiragana[n] \in SokuonFinals
                     THEN <<Atom({"xtu"}, TRUE)>>
                     ELSE <<Lit(hiragana[n])>>
                ELSE <<>>
    IN <<head>> \o middle \o tail

japanese_matchreg(hiragana) ==
    LET n == Len(hiragana)
        first == hiragana[1]
        head == IF first \in DOMAIN DAKUON THEN Atom(DAKUON[first], FALSE) ELSE Lit(first)
        middle == [i \in 1..(IF n >= 2 THEN n - 2 ELSE 0) |-> Lit(hiragana[i + 1])]
        tail == IF n > 1
                THEN IF hiragana[n] \in SokuonFinals
                     THEN <<Atom({hiragana[n], "xtu"}, TRUE)>>
                     ELSE <<Lit(hiragana[n])>>
                ELSE <<>>
    IN <<head>> \o middle \o tail

japanese_match(hiragana1, hiragana2) == FullMatch(japanese_matchreg(hiragana1), hiragana2)

---------------------------------------------------------------------------
(* canonical_reading *)

\* for creading in list: if japanese_match(creading, foundreading): return
\* the index of the first candidate that matches, 0 when the loop ends
RECURSIVE ScanReadings(_, _, _)
ScanReadings(list, i, foundreading) ==
    IF i > Len(list) THEN 0
    ELSE IF japanese_match(list[i], foundreading) THEN i
    ELSE ScanReadings(list, i + 1, foundreading)

canonical_reading_kunfirst(on, kun, kanji, foundreading) ==
    LET oi == IF kanji \in DOMAIN on THEN ScanReadings(on[kanji], 1, foundreading) ELSE 0
        ki == IF kanji \in DOMAIN kun THEN ScanReadings(kun[kanji], 1, foundreading) ELSE 0
    IN IF ki > 0 THEN Returned(<<kun[kanji][ki], "Kun">>)
       ELSE IF oi > 0 THEN Returned(<<on[kanji][oi], "On">>)
       ELSE IF kanji \in DOMAIN kun THEN Raised("UnknownReading")
       ELSE Raised("UnknownKanji")

canonical_reading(on, kun, kanji, foundreading) ==
    LET oi == IF kanji \in DOMAIN on THEN ScanReadings(on[kanji], 1, foundreading) ELSE 0
        ki == IF kanji \in DOMAIN kun THEN ScanReadings(kun[kanji], 1, foundreading) ELSE 0
    IN IF oi > 0 THEN Returned(<<on[kanji][oi], "On">>)
       ELSE IF kanji \in DOMAIN kun
            THEN IF ki > 0 THEN Returned(<<kun[kanji][ki], "Kun">>)
                 ELSE Raised("UnknownReading")
            ELSE Raised("UnknownKanji")

---------------------------------------------------------------------------
(* The canonicalizer's state machine: tables loaded at import, then calls *)

CanonKanji == {"K1", "K2"}
CanonPool == {<<"ko", "ku">>, <<"ko">>, <<"go">>}
CanonHiragana == {"ko", "go", "ku", "xtu"}

NoCall ==
    /\ pc = "idle"
    /\ op = "none"
    /\ args = <<>>
    /\ result = NoResult

InitCanon ==
    /\ ONYOMI \in Dicts({"K1"}, ListsUpTo(CanonPool, MaxYomis))
    /\ KUNYOMI \in Dicts({"K1"}, ListsUpTo(CanonPool, MaxYomis))
    /\ JOYO_ONYOMI = <<>>
    /\ JOYO_KUNYOMI = <<>>
    /\ NoCall

CallCanonicalReading ==
    /\ pc = "idle"
    /\ \E kanji \in CanonKanji, foundreading \in SeqsUpTo(CanonHiragana, MaxReadingLen) :
          /\ op' = "canonical_reading"
          /\ args' = <<kanji, foundreading>>
          /\ result' = canonical_reading(ONYOMI, KUNYOMI, kanji, foundreading)
    /\ pc' = "done"
    /\ UNCHANGED tables

\* the caller takes the outcome; nothing persists across calls
Return ==
    /\ pc = "done"
    /\ pc' = "idle"
    /\ op' = "none"
    /\ args' = <<>>
    /\ result' = NoResult
    /\ UNCHANGED tables

NextCanon == CallCanonicalReading \/ Return

SpecCanon == InitCanon /\ [][NextCanon]_vars

---------------------------------------------------------------------------
(* Properties of canonical_reading *)

CanonDone == pc = "done" /\ op = "canonical_reading"

\* every candidate of the kanji in scan order (on-yomi, then kun-yomi), tagged
ScanOrder(kanji) ==
    (IF kanji \in DOMAIN ONYOMI
     THEN [i \in 1..Len(ONYOMI[kanji]) |-> <<ONYOMI[kanji][i], "On">>] ELSE <<>>)
    \o
    (IF kanji \in DOMAIN KUNYOMI
     THEN [i \in 1..Len(KUNYOMI[kanji]) |-> <<KUNYOMI[kanji][i], "Kun">>] ELSE <<>>)

\* Phonological equivalence stated directly: the first syllable up to
\* voicing, the middle syllables as they are, a final つ/ち/く of a reading of
\* two or more syllables as itself, as っ, or dropped.
PhonEquiv(c, r) ==
    LET n == Len(c)
        class == IF c[1] \in DOMAIN DAKUON THEN DAKUON[c[1]] ELSE {c[1]}
    IN IF n = 1 THEN Len(r) = 1 /\ r[1] \in class
       ELSE /\ Len(r) \in {n - 1, n}
            /\ r[1] \in class
            /\ \A i \in 2..(n - 1) : r[i] = c[i]
            /\ \/ Len(r) = n /\ r[n] = c[n]
               \/ Len(r) = n /\ c[n] \in SokuonFinals /\ r[n] = "xtu"
               \/ Len(r) = n - 1 /\ c[n] \in SokuonFinals

\* C1 (as claimed): canonical_reading raises UnknownKanji if and only if the
\* kanji is absent from both tables, and UnknownReading if and only if the
\* kanji is in at least one table and no candidate of either table is
\* phonologically equivalent to the observed reading.
C1_ErrorKinds ==
    CanonDone =>
        LET kanji == args[1]
            r == args[2]
            known == kanji \in DOMAIN ONYOMI \/ kanji \in DOMAIN KUNYOMI
            equiv == \E i \in 1..Len(ScanOrder(kanji)) : PhonEquiv(ScanOrder(kanji)[i][1], r)
        IN /\ (result.status = "raise" /\ result.value = "UnknownKanji") <=> ~known
           /\ (result.status = "raise" /\ result.value = "UnknownReading") <=> (known /\ ~equiv)

\* C2 (as claimed): for a candidate r listed for the kanji, canonical_reading
\* returns r itself, tagged On when r is in the on-yomi list and Kun when it
\* is in the kun-yomi list.
C2_RoundTrip ==
    CanonDone =>
        \A i \in 1..Len(ScanOrder(args[1])) :
            (ScanOrder(args[1])[i][1] = args[2]
             /\ \A j \in 1..(i - 1) : ScanOrder(args[1])[j][1] # args[2])
            => result.status = "return" /\ result.value = ScanOrder(args[1])[i]

\* C2 (amended): for a candidate r listed for the kanji, canonical_reading
\* returns the first candidate in scan order (on-yomi list, then kun-yomi
\* list) that is phonologically equivalent to r, with the tag of its list;
\* that is r itself, with its own tag, when no earlier candidate is
\* equivalent to r.
C2_FirstEquivalent ==
    CanonDone =>
        LET scan == ScanOrder(args[1])
            r == args[2]
            listed == {i \in 1..Len(scan) : scan[i][1] = r}
            equiv == {i \in 1..Len(scan) : PhonEquiv(scan[i][1], r)}
        IN listed # {} =>
              /\ result.status = "return"
              /\ \E i \in equiv :
                    /\ \A j \in equiv : i <= j
                    /\ result.value = scan[i]
                    /\ (\A j \in listed : i <= j)
                    /\ (i \in listed => result.value[1] = r)

\* a listed reading was given and another spelling of it came back
C2_Witness ==
    /\ CanonDone
    /\ \E i \in 1..Len(ScanOrder(args[1])) : ScanOrder(args[1])[i][1] = args[2]
    /\ result.status = "return"
    /\ result.value[1] # args[2]


---------------------------------------------------------------------------
(* is_joyo *)

Range(list) == {list[i] : i \in 1..Len(list)}

\* str.startswith
StartsWith(str, prefix) ==
    Len(prefix) <= Len(str) /\ SubSeq(str, 1, Len(prefix)) = prefix

i_to_u ==
    ("i" :> "u") @@ ("ki" :> "ku") @@ ("si" :> "su") @@ ("ti" :> "tu") @@
    ("ni" :> "nu") @@ ("hi" :> "hu") @@ ("mi" :> "mu") @@ ("ri" :> "ru")

\* reading[-1] in 'いきしちにひみり'
EuphonicFinals == {"i", "ki", "si", "ti", "ni", "hi", "mi", "ri"}

is_joyo_noguard(jon, jkun, kanji, reading) ==
    LET n == Len(reading)
    IN IF kanji \in DOMAIN jon /\ reading \in Range(jon[kanji]) THEN Returned(TRUE)
       ELSE IF kanji \in DOMAIN jkun
       THEN IF reading \in Range(jkun[kanji]) THEN Returned(TRUE)
            ELSE IF n > 0 /\ reading[n] \in EuphonicFinals
                         /\ reading[n] \notin DOMAIN i_to_u
                 THEN Raised("KeyError")
            ELSE IF n > 0 /\ reading[n] \in EuphonicFinals
                         /\ (SubSeq(reading, 1, n - 1) \o <<i_to_u[reading[n]]>>)
                                \in Range(jkun[kanji])
                 THEN Returned(TRUE)
            ELSE Returned(\E i \in 1..Len(jkun[kanji]) : StartsWith(jkun[kanji][i], reading))
       ELSE Returned(FALSE)

is_joyo(jon, jkun, kanji, reading) ==
    LET n == Len(reading)
    IN IF kanji \in DOMAIN jon /\ reading \in Range(jon[kanji]) THEN Returned(TRUE)
       ELSE IF kanji \in DOMAIN jkun
       THEN IF reading \in Range(jkun[kanji]) THEN Returned(TRUE)
            ELSE IF n > 1 /\ reading[n] \in EuphonicFinals
                         /\ reading[n] \notin DOMAIN i_to_u
                 THEN Raised("KeyError")
            ELSE IF n > 1 /\ reading[n] \in EuphonicFinals
                         /\ (SubSeq(reading, 1, n - 1) \o <<i_to_u[reading[n]]>>)
                                \in Range(jkun[kanji])
                 THEN Returned(TRUE)
            ELSE Returned(\E i \in 1..Len(jkun[kanji]) : StartsWith(jkun[kanji][i], reading))
       ELSE Returned(FALSE)

JoyoKanji == {"K1", "K2"}
JoyoPool == {<<"ka", "ku">>, <<"ku">>, <<"ki">>}
JoyoHiragana == {"ka", "ki", "ku"}

InitJoyo ==
    /\ ONYOMI = <<>>
    /\ KUNYOMI = <<>>
    /\ JOYO_ONYOMI \in Dicts({"K1"}, ListsUpTo(JoyoPool, MaxYomis))
    /\ JOYO_KUNYOMI \in Dicts({"K1"}, ListsUpTo(JoyoPool, MaxYomis))
    /\ NoCall

CallIsJoyo ==
    /\ pc = "idle"
    /\ \E kanji \in JoyoKanji, reading \in SeqsUpTo(JoyoHiragana, MaxReadingLen) :
          /\ op' = "is_joyo"
          /\ args' = <<kanji, reading>>
          /\ result' = is_joyo(JOYO_ONYOMI, JOYO_KUNYOMI, kanji, reading)
    /\ pc' = "done"
    /\ UNCHANGED tables

NextJoyo == CallIsJoyo \/ Return

SpecJoyo == InitJoyo /\ [][NextJoyo]_vars

JoyoDone == pc = "done" /\ op = "is_joyo"

JoyoOn(kanji) == IF kanji \in DOMAIN JOYO_ONYOMI THEN Range(JOYO_ONYOMI[kanji]) ELSE {}
JoyoKun(kanji) == IF kanji \in DOMAIN JOYO_KUNYOMI THEN Range(JOYO_KUNYOMI[kanji]) ELSE {}

\* the reading with its final i-column syllable replaced by the u-column one
UForm(reading) ==
    [i \in 1..Len(reading) |->
        IF i = Len(reading)
        THEN CASE reading[i] = "i" -> "u" [] reading[i] = "ki" -> "ku"
               [] reading[i] = "si" -> "su" [] reading[i] = "ti" -> "tu"
               [] reading[i] = "ni" -> "nu" [] reading[i] = "hi" -> "hu"
               [] reading[i] = "mi" -> "mu" [] reading[i] = "ri" -> "ru"
               [] OTHER -> "none"
        ELSE reading[i]]

\* C8: is_joyo never raises and returns true exactly when the reading is in
\* the kanji's joyo on-yomi list, or in its joyo kun-yomi list, or has more
\* than one syllable and its u-form is in the kun-yomi list, or is a proper
\* prefix of a joyo kun-yomi entry; it returns false in every other case, a
\* kanji absent from both joyo tables included.
C8_IsJoyo ==
    JoyoDone =>
        LET kanji == args[1]
            reading == args[2]
        IN /\ result.status = "return"
           /\ result.value <=>
                \/ reading \in JoyoOn(kanji)
                \/ reading \in JoyoKun(kanji)
                \/ Len(reading) > 1 /\ UForm(reading) \in JoyoKun(kanji)
                \/ \E kun \in JoyoKun(kanji) :
                      /\ Len(reading) < Len(kun)
                      /\ \A i \in 1..Len(reading) : kun[i] = reading[i]

\* true by the euphonic shift alone: the reading is in neither list and is
\* no prefix of a kun-yomi entry
C8_Witness ==
    /\ JoyoDone
    /\ result.value = TRUE
    /\ args[2] \notin JoyoOn(args[1]) \cup JoyoKun(args[1])
    /\ \A kun \in JoyoKun(args[1]) : ~StartsWith(kun, args[2])

---------------------------------------------------------------------------
(* Patterns and the backtracking matcher *)

\* A pattern element is one of
\*   Group(name, alts):  (?P<name>a|b|c), or (a|b|c) when name = <<>>
\*   Plus(S, greedy):    ([S]+) or ([S]+?), a capturing group
\*   Literal(ch):        re.escape(ch) outside any group
Group(name, alts) == [kind |-> "group", name |-> name, alts |-> alts]
Plus(S, greedy) == [kind |-> "plus", set |-> S, greedy |-> greedy]
Literal(ch) == [kind |-> "literal", ch |-> ch]

Captures(el) == el.kind # "literal"

\* how many characters of s from position p on are in S
RECURSIVE RunLength(_, _, _)
RunLength(S, s, p) ==
    IF p <= Len(s) /\ s[p] \in S THEN 1 + RunLength(S, s, p + 1) ELSE 0

\* The ways element el matches s at p, in the engine's priority order:
\* alternatives left to right, a greedy quantifier longest first, a lazy one
\* shortest first.
RECURSIVE AltOptions(_, _, _, _)
AltOptions(alts, j, s, p) ==
    IF j > Len(alts) THEN <<>>
    ELSE LET ends == AtomEnds(alts[j], 1, s, p)
         IN [k \in 1..Len(ends) |-> [alt |-> j, end |-> ends[k]]]
            \o AltOptions(alts, j + 1, s, p)

Options(el, s, p) ==
    CASE el.kind = "group" -> AltOptions(el.alts, 1, s, p)
      [] el.kind = "plus" ->
            LET run == RunLength(el.set, s, p)
            IN [k \in 1..run |->
                   [alt |-> 1, end |-> IF el.greedy THEN p + run - k + 1 ELSE p + k]]
      [] el.kind = "literal" ->
            IF p <= Len(s) /\ s[p] = el.ch THEN <<[alt |-> 1, end |-> p + 1]>> ELSE <<>>

NoMatch == [ok |-> FALSE, spans |-> <<>>]

\* re.match(pattern + '$', s): the first complete match in priority order;
\* spans[i] is what element i matched and by which alternative.
RECURSIVE Match(_, _, _, _)
RECURSIVE TryOptions(_, _, _, _, _, _)
Match(pattern, i, s, p) ==
    IF i > Len(pattern)
    THEN IF p = Len(s) + 1 THEN [ok |-> TRUE, spans |-> <<>>] ELSE NoMatch
    ELSE TryOptions(pattern, i, s, p, Options(pattern[i], s, p), 1)

TryOptions(pattern, i, s, p, opts, k) ==
    IF k > Len(opts) THEN NoMatch
    ELSE LET rest == Match(pattern, i + 1, s, opts[k].end)
         IN IF rest.ok
            THEN [ok |-> TRUE,
                  spans |-> <<[alt |-> opts[k].alt, start |-> p, end |-> opts[k].end]>>
                            \o rest.spans]
            ELSE TryOptions(pattern, i, s, p, opts, k + 1)

re_match(pattern, s) == Match(pattern, 1, s, 1)

\* the substring a span covers
Captured(s, span) == SubSeq(s, span.start, span.end - 1)

\* m.groups(): the captures of the capturing elements, in order
RECURSIVE groups(_, _, _, _)
groups(pattern, m, s, i) ==
    IF i > Len(pattern) THEN <<>>
    ELSE (IF Captures(pattern[i]) THEN <<Captured(s, m.spans[i])>> ELSE <<>>)
         \o groups(pattern, m, s, i + 1)

---------------------------------------------------------------------------
(* guess_split *)

\* \p{Han}: the kanji of the model and the repetition mark 々
IsHan(ch) == ch \in {"K1", "K2", "noma"}

\* \p{Hiragana}
Hiragana ==
    {"a", "i", "u", "no", "na", "mi", "xtu",
     "ka", "ki", "ku", "ke", "ko", "ga", "gi", "gu", "ge", "go",
     "sa", "si", "su", "se", "so", "za", "zi", "zu", "ze", "zo",
     "ta", "ti", "tu", "te", "to", "da", "di", "du", "de", "do",
     "ha", "hi", "hu", "he", "ho", "ba", "bi", "bu", "be", "bo",
     "pa", "pi", "pu", "pe", "po", "ni", "nu", "mu", "ri", "ru"}

PyNone == [type |-> "NoneType", items |-> <<>>]
PyDict(d) == [type |-> "dict", items |-> d]

\* kanjis: the \p{Han} characters of the text, in order
RECURSIVE HanChars(_, _)
HanChars(majiribun, i) ==
    IF i > Len(majiribun) THEN <<>>
    ELSE (IF IsHan(majiribun[i]) THEN <<majiribun[i]>> ELSE <<>>)
         \o HanChars(majiribun, i + 1)

\* matchreg_greedy / matchreg_nongreedy
guess_matchreg(majiribun, greedy) ==
    [i \in 1..Len(majiribun) |->
        IF IsHan(majiribun[i]) THEN Plus(Hiragana, greedy) ELSE Literal(majiribun[i])]

\* d[kanjis[idx]] = yomis[idx] for idx = 0, 1, ...: a later occurrence of a
\* kanji overwrites an earlier one
LastWins(kanjis, yomis) ==
    [k \in Range(kanjis) |->
        LET last == CHOOSE i \in 1..Len(kanjis) :
                        kanjis[i] = k /\ \A j \in 1..Len(kanjis) : kanjis[j] = k => j <= i
        IN yomis[last]]

guess_split_bothgreedy(majiribun, reading) ==
    LET kanjis == HanChars(majiribun, 1)
        greedy == guess_matchreg(majiribun, TRUE)
        m == re_match(greedy, reading)
    IN IF m.ok
       THEN LET yomis == groups(greedy, m, reading, 1)
                yomis_nongreedy == groups(greedy, re_match(greedy, reading), reading, 1)
            IN IF yomis # yomis_nongreedy THEN Returned(PyNone)
               ELSE Returned(PyDict(LastWins(kanjis, yomis)))
       ELSE Returned(PyNone)

guess_split(majiribun, reading) ==
    LET kanjis == HanChars(majiribun, 1)
        greedy == guess_matchreg(majiribun, TRUE)
        nongreedy == guess_matchreg(majiribun, FALSE)
        m == re_match(greedy, reading)
    IN IF m.ok
       THEN LET yomis == groups(greedy, m, reading, 1)
                yomis_nongreedy == groups(nongreedy, re_match(nongreedy, reading), reading, 1)
            IN IF yomis # yomis_nongreedy THEN Returned(PyNone)
               ELSE Returned(PyDict(LastWins(kanjis, yomis)))
       ELSE Returned(PyNone)

MaxTextLen == 3          \* longest mixed text given to guess_split
MaxGuessReadingLen == 4  \* longest reading given to guess_split

GuessTextChars == {"K1", "K2", "no", "dot"}
GuessReadingChars == {"a", "no", "dot"}

InitGuess ==
    /\ ONYOMI = <<>>
    /\ KUNYOMI = <<>>
    /\ JOYO_ONYOMI = <<>>
    /\ JOYO_KUNYOMI = <<>>
    /\ NoCall

CallGuessSplit ==
    /\ pc = "idle"
    /\ \E majiribun \in SeqsUpTo(GuessTextChars, MaxTextLen),
          reading \in SeqsUpTo(GuessReadingChars, MaxGuessReadingLen) :
          /\ op' = "guess_split"
          /\ args' = <<majiribun, reading>>
          /\ result' = guess_split(majiribun, reading)
    /\ pc' = "done"
    /\ UNCHANGED tables

NextGuess == CallGuessSplit \/ Return

SpecGuess == InitGuess /\ [][NextGuess]_vars

---------------------------------------------------------------------------
(* Properties of guess_split *)

GuessDone == pc = "done" /\ op = "guess_split"

\* The divisions of the reading over text[i..] from position p: one end
\* position per character, a kanji taking a non-empty run of hiragana and
\* any other character itself.
RECURSIVE Divisions(_, _, _, _)
Divisions(text, i, reading, p) ==
    IF i > Len(text)
    THEN IF p = Len(reading) + 1 THEN {<<>>} ELSE {}
    ELSE LET ends ==
                 IF IsHan(text[i])
                 THEN {e \in (p + 1)..(Len(reading) + 1) :
                          \A q \in p..(e - 1) : reading[q] \in Hiragana}
                 ELSE {e \in {p + 1} : p <= Len(reading) /\ reading[p] = text[i]}
         IN UNION {{<<e>> \o d : d \in Divisions(text, i + 1, reading, e)} : e \in ends}

\* the piece of the reading a division gives to character i of the text
Piece(reading, d, i) == SubSeq(reading, IF i = 1 THEN 1 ELSE d[i - 1], d[i] - 1)

\* C5: guess_split never guesses: when the reading divides in more than one
\* way into non-empty hiragana pieces, one per kanji, around the literally
\* matched other characters, the result is None; a mapping is returned
\* exactly when one division exists, and it gives every kanji the piece of
\* (the last occurrence of) that kanji in that division.
C5_NeverGuesses ==
    GuessDone =>
        LET text == args[1]
            reading == args[2]
            divs == Divisions(text, 1, reading, 1)
        IN /\ result.status = "return"
           /\ Cardinality(divs) > 1 => result.value = PyNone
           /\ result.value.type = "dict" <=> Cardinality(divs) = 1
           /\ result.value.type = "dict" =>
                 \A d \in divs : \A i \in 1..Len(text) :
                    (IsHan(text[i]) /\ \A j \in (i + 1)..Len(text) : text[j] # text[i])
                    => result.value.items[text[i]] = Piece(reading, d, i)

\* a reading with more than one division was refused
C5_WitnessAmbiguous ==
    /\ GuessDone
    /\ Cardinality(Divisions(args[1], 1, args[2], 1)) > 1
    /\ result.value = PyNone

\* C6 (as claimed): the outcome of guess_split for a reading that does not
\* match differs from its outcome for every ambiguous input.
C6_NoMatchDistinct ==
    (GuessDone /\ Divisions(args[1], 1, args[2], 1) = {}) =>
        \A text \in SeqsUpTo(GuessTextChars, MaxTextLen),
           reading \in SeqsUpTo(GuessReadingChars, MaxGuessReadingLen) :
            Cardinality(Divisions(text, 1, reading, 1)) > 1
            => guess_split(text, reading) # result


---------------------------------------------------------------------------
(* yomi_matchreg *)

\* re.match("(\W|\d)$", ch): punctuation and digits cannot name a group
Digits == <<"0", "1", "2", "3", "4", "5", "6", "7", "8", "9">>
IsNonWord(ch) == ch \in {"dot"} \cup Range(Digits)

\* repr(n) of a positive integer: its decimal digits
RECURSIVE repr(_)
repr(n) == IF n < 10 THEN <<Digits[n + 1]>> ELSE repr(n \div 10) \o <<Digits[(n % 10) + 1]>>

\* yomis.sort(key=len, reverse=True): a stable sort, longest first
InsertByLen_unstable(sorted, y) ==
    LET after == {i \in 1..Len(sorted) : Len(sorted[i]) > Len(y)}
        k == Cardinality(after)
    IN SubSeq(sorted, 1, k) \o <<y>> \o SubSeq(sorted, k + 1, Len(sorted))

InsertByLen(sorted, y) ==
    LET after == {i \in 1..Len(sorted) : Len(sorted[i]) >= Len(y)}
        k == Cardinality(after)
    IN SubSeq(sorted, 1, k) \o <<y>> \o SubSeq(sorted, k + 1, Len(sorted))

RECURSIVE SortByLenReverse(_, _)
SortByLenReverse(yomis, i) ==
    IF i = 0 THEN <<>> ELSE InsertByLen(SortByLenReverse(yomis, i - 1), yomis[i])

\* yomis of a character: ONYOMI[ch] followed by KUNYOMI[ch]
Yomis(on, kun, ch) ==
    (IF ch \in DOMAIN on THEN on[ch] ELSE <<>>) \o (IF ch \in DOMAIN kun THEN kun[ch] ELSE <<>>)

\* reg of one character: the alternatives of its group, or the ValueError
\* 'Repetition character 々 following nothing'
Reg(alts) == [raised |-> FALSE, alts |-> alts]
RegError == [raised |-> TRUE, alts |-> <<>>]

CharReg_escapeprev(on, kun, ch, prevch, prevreg) ==
    LET yomis == Yomis(on, kun, ch)
        sorted == SortByLenReverse(yomis, Len(yomis))
    IN IF yomis # <<>> THEN Reg([j \in 1..Len(sorted) |-> japanese_matchreg(sorted[j])])
       ELSE IF ch = "noma"
            THEN IF prevch # "None" THEN Reg(<<<<Lit(prevch)>>>>) ELSE RegError
            ELSE Reg(<<<<Lit(ch)>>>>)

CharReg(on, kun, ch, prevch, prevreg) ==
    LET yomis == Yomis(on, kun, ch)
        sorted == SortByLenReverse(yomis, Len(yomis))
    IN IF yomis # <<>> THEN Reg([j \in 1..Len(sorted) |-> japanese_matchreg(sorted[j])])
       ELSE IF ch = "noma"
            THEN IF prevch # "None" THEN Reg(prevreg) ELSE RegError
            ELSE Reg(<<<<Lit(ch)>>>>)

\* groupname of a character seen n times so far, this one included
GroupName_nocount(ch, n) == <<ch>>

GroupName(ch, n) == IF n > 1 THEN <<ch>> \o repr(n) ELSE <<ch>>

\* the loop over kanjistring from character i on; matchreg is the pattern
\* built so far, count the occurrences seen so far
RECURSIVE CompileFrom(_, _, _, _, _, _, _, _)
CompileFrom(on, kun, kanjistring, i, prevch, prevreg, count, matchreg) ==
    IF i > Len(kanjistring) THEN Returned(matchreg)
    ELSE LET ch == kanjistring[i]
             reg == CharReg(on, kun, ch, prevch, prevreg)
             n == IF ch \in DOMAIN count THEN count[ch] + 1 ELSE 1
             element == IF IsNonWord(ch) THEN Group(<<>>, reg.alts)
                        ELSE Group(GroupName(ch, n), reg.alts)
         IN IF reg.raised THEN Raised("ValueError")
            ELSE CompileFrom(on, kun, kanjistring, i + 1, ch, reg.alts,
                             (ch :> n) @@ count, matchreg \o <<element>>)

yomi_matchreg(on, kun, kanjistring) ==
    CompileFrom(on, kun, kanjistring, 1, "None", <<>>, <<>>, <<>>)


---------------------------------------------------------------------------
(* yomidict *)

\* m.groupdict(): the named groups; of two groups of one name the later wins
groupdict(pattern, m, s) ==
    LET named == {i \in 1..Len(pattern) : pattern[i].name # <<>>}
    IN [name \in {pattern[i].name : i \in named} |->
           LET last == CHOOSE i \in named :
                          pattern[i].name = name
                          /\ \A j \in named : pattern[j].name = name => j <= i
           IN Captured(s, m.spans[last])]

yomidict(on, kun, kanji, reading) ==
    LET compiled == yomi_matchreg(on, kun, kanji)
        m == re_match(compiled.value, reading)
    IN IF compiled.status = "raise" THEN compiled
       ELSE IF ~m.ok THEN Raised("UnknownReading")
       ELSE Returned(groupdict(compiled.value, m, reading))

---------------------------------------------------------------------------
(* The splitter's state machine *)

MaxWordLen == 3          \* longest word given to yomi_matchreg
MaxDictWordLen == 2      \* longest word given to yomidict
MaxDictReadingLen == 3   \* longest reading given to yomidict

WordChars == {"K1", "K2", "noma", "no", "dot"}
DictWordChars == {"K1", "K2", "dot"}
DictReadingChars == {"ko", "ku", "xtu", "dot"}

YomiOnPool == {<<"ko", "ku">>, <<"ko">>}
YomiKunPool == {<<"ku">>}

\* K2 always reads こ (on) or くこ (kun); the entry of K1 varies
InitYomi ==
    /\ \E on1 \in Dicts({"K1"}, ListsUpTo(YomiOnPool, MaxYomis)) :
          ONYOMI = on1 @@ ("K2" :> <<<<"ko">>>>)
    /\ \E kun1 \in Dicts({"K1"}, ListsUpTo(YomiKunPool, MaxYomis)) :
          KUNYOMI = kun1 @@ ("K2" :> <<<<"ku", "ko">>>>)
    /\ JOYO_ONYOMI = <<>>
    /\ JOYO_KUNYOMI = <<>>
    /\ NoCall

CallYomiMatchreg ==
    /\ pc = "idle"
    /\ \E kanjistring \in SeqsUpTo(WordChars, MaxWordLen) :
          /\ op' = "yomi_matchreg"
          /\ args' = <<kanjistring>>
          /\ result' = yomi_matchreg(ONYOMI, KUNYOMI, kanjistring)
    /\ pc' = "done"
    /\ UNCHANGED tables

CallYomidict ==
    /\ pc = "idle"
    /\ \E kanji \in SeqsUpTo(DictWordChars, MaxDictWordLen),
          reading \in SeqsUpTo(DictReadingChars, MaxDictReadingLen) :
          /\ op' = "yomidict"
          /\ args' = <<kanji, reading>>
          /\ result' = yomidict(ONYOMI, KUNYOMI, kanji, reading)
    /\ pc' = "done"
    /\ UNCHANGED tables

NextYomi == CallYomiMatchreg \/ CallYomidict \/ Return

SpecYomi == InitYomi /\ [][NextYomi]_vars


---------------------------------------------------------------------------
(* Properties of yomi_matchreg and yomidict *)

CompileDone == pc = "done" /\ op = "yomi_matchreg"
YomidictDone == pc = "done" /\ op = "yomidict"

\* the pattern of the word of the last call
PatternOf(word) == yomi_matchreg(ONYOMI, KUNYOMI, word).value

\* how often word[i] occurs in word[1..i]
Occurrence(word, i) == Cardinality({j \in 1..i : word[j] = word[i]})

\* the k-th smallest element of a set of numbers
KthOf(S, k) == CHOOSE x \in S : Cardinality({y \in S : y <= x}) = k

\* str is in the language of one alternative: the atoms kept (every atom
\* that is not optional, and any of the optional ones) match str one by one
InAlt(atoms, str) ==
    \E keep \in SUBSET (1..Len(atoms)) :
        /\ \A k \in (1..Len(atoms)) \ keep : atoms[k].opt
        /\ Cardinality(keep) = Len(str)
        /\ \A k \in 1..Len(str) : str[k] \in atoms[KthOf(keep, k)].set

\* str is accepted by a group
Accepts(el, str) == \E j \in 1..Len(el.alts) : InAlt(el.alts[j], str)

RECURSIVE Concat(_, _)
Concat(strs, i) == IF i > Len(strs) THEN <<>> ELSE strs[i] \o Concat(strs, i + 1)

\* C3 (as claimed): when yomidict succeeds, the mapping has one slot per
\* character of the word and the captures, concatenated in word order, are
\* the whole reading.
C3_OneSlotPerCharacter ==
    (YomidictDone /\ result.status = "return") =>
        LET word == args[1]
            reading == args[2]
            pattern == PatternOf(word)
        IN /\ Cardinality(DOMAIN result.value) = Len(word)
           /\ \A i \in 1..Len(word) : pattern[i].name \in DOMAIN result.value
           /\ Concat([i \in 1..Len(word) |-> result.value[pattern[i].name]], 1) = reading

\* C4: for a word whose characters all have lexicon candidates and a reading
\* that is the concatenation of one candidate per character, yomidict does
\* not raise.
C4_SelfConsistent ==
    YomidictDone =>
        LET word == args[1]
            reading == args[2]
        IN (/\ \A i \in 1..Len(word) : Yomis(ONYOMI, KUNYOMI, word[i]) # <<>>
            /\ \E chosen \in [1..Len(word) ->
                                 UNION {Range(Yomis(ONYOMI, KUNYOMI, word[i])) : i \in 1..Len(word)}] :
                  /\ \A i \in 1..Len(word) :
                        chosen[i] \in Range(Yomis(ONYOMI, KUNYOMI, word[i]))
                  /\ Concat(chosen, 1) = reading)
           => result.status = "return"

\* the concatenation of two candidates matched only after the matcher gave
\* up its first try for the first character
C4_Witness ==
    /\ YomidictDone
    /\ Len(args[1]) = 2
    /\ \A i \in 1..2 : Yomis(ONYOMI, KUNYOMI, args[1][i]) # <<>>
    /\ \E c1 \in Range(Yomis(ONYOMI, KUNYOMI, args[1][1])),
          c2 \in Range(Yomis(ONYOMI, KUNYOMI, args[1][2])) : c1 \o c2 = args[2]
    /\ result.status = "return"
    /\ LET pattern == PatternOf(args[1])
           first == Options(pattern[1], args[2], 1)[1]
           m == re_match(pattern, args[2])
       IN m.spans[1].alt # first.alt \/ m.spans[1].end # first.end

\* C7: a repetition mark after the first position accepts exactly what the
\* element of the character before it accepts, its alternation reused as it
\* is (also after a literal or another repetition mark); a word that begins
\* with the repetition mark makes yomi_matchreg raise instead of returning a
\* pattern.
AcceptChars == {"ko", "go", "ku", "xtu", "no", "dot", "K1", "noma"}
MaxAcceptLen == 2

C7_RepetitionMark ==
    CompileDone =>
        LET word == args[1]
        IN IF word # <<>> /\ word[1] = "noma"
           THEN result.status = "raise" /\ result.value = "ValueError"
           ELSE /\ result.status = "return"
                /\ \A i \in 2..Len(word) :
                      word[i] = "noma" =>
                         /\ result.value[i].alts = result.value[i - 1].alts
                         /\ \A str \in SeqsUpTo(AcceptChars, MaxAcceptLen) :
                               Accepts(result.value[i], str)
                               <=> Accepts(result.value[i - 1], str)

\* a repetition mark after a kanji with candidates, and one after that mark
C7_Witness ==
    /\ CompileDone
    /\ result.status = "return"
    /\ Len(args[1]) = 3
    /\ args[1][2] = "noma"
    /\ args[1][3] = "noma"
    /\ Len(result.value[3].alts) >= 2

\* C9: the names of the named slots of a word are pairwise distinct: the
\* first occurrence of a character is named by the character, its k-th
\* occurrence (k >= 2) by the character followed by k; the mapping yomidict
\* returns has one entry per named slot.
C9_DistinctSlotNames ==
    /\ (CompileDone /\ result.status = "return") =>
          LET word == args[1]
              named == {i \in 1..Len(word) : ~IsNonWord(word[i])}
          IN /\ \A i \in 1..Len(word) : (result.value[i].name # <<>>) <=> i \in named
             /\ \A i \in named :
                   result.value[i].name =
                      IF Occurrence(word, i) = 1 THEN <<word[i]>>
                      ELSE <<word[i], Digits[Occurrence(word, i) + 1]>>
             /\ \A i, j \in named : result.value[i].name = result.value[j].name => i = j
    /\ (YomidictDone /\ result.status = "return") =>
          Cardinality(DOMAIN result.value)
             = Cardinality({i \in 1..Len(args[1]) : ~IsNonWord(args[1][i])})

\* a character occurs three times in a word
C9_Witness ==
    /\ CompileDone
    /\ result.status = "return"
    /\ \E i \in 1..Len(args[1]) : Occurrence(args[1], i) = 3 /\ ~IsNonWord(args[1][i])


\* All the ways pattern[i..] matches s from p to its end, whatever the order
\* of trying: sequences of spans, one per element.
RECURSIVE AllParses(_, _, _, _)
AllParses(pattern, i, s, p) ==
    IF i > Len(pattern)
    THEN IF p = Len(s) + 1 THEN {<<>>} ELSE {}
    ELSE LET firsts == {sp \in [alt : 1..Len(pattern[i].alts), start : {p},
                                end : p..(Len(s) + 1)] :
                           InAlt(pattern[i].alts[sp.alt], SubSeq(s, p, sp.end - 1))}
         IN UNION {{<<sp>> \o rest : rest \in AllParses(pattern, i + 1, s, sp.end)} :
                     sp \in firsts}

\* C10: the alternation of a character with candidates lists the expanded
\* candidates (on-yomi then kun-yomi) longest first, candidates of equal
\* length in table order; and of the several ways a reading splits, yomidict
\* returns the one in which each character in turn, the earliest first,
\* takes the first alternative of this order that lets the rest match.
C10_LongestFirst ==
    /\ (CompileDone /\ result.status = "return") =>
          \A i \in 1..Len(args[1]) :
             LET yomis == Yomis(ONYOMI, KUNYOMI, args[1][i])
                 alts == result.value[i].alts
             IN yomis # <<>> =>
                  /\ Len(alts) = Len(yomis)
                  /\ \E order \in [1..Len(yomis) -> 1..Len(yomis)] :
                        /\ \A j, k \in 1..Len(yomis) : order[j] = order[k] => j = k
                        /\ \A j \in 1..Len(yomis) : alts[j] = japanese_matchreg(yomis[order[j]])
                        /\ \A j, k \in 1..Len(yomis) :
                              j < k =>
                                 \/ Len(yomis[order[j]]) > Len(yomis[order[k]])
                                 \/ /\ Len(yomis[order[j]]) = Len(yomis[order[k]])
                                    /\ order[j] < order[k]
    /\ (YomidictDone /\ result.status = "return") =>
          LET pattern == PatternOf(args[1])
              all == AllParses(pattern, 1, args[2], 1)
          IN \E chosen \in all :
                /\ \A i \in 1..Len(pattern) :
                      /\ pattern[i].name # <<>> =>
                            result.value[pattern[i].name] = Captured(args[2], chosen[i])
                      /\ \A other \in all :
                            (\A j \in 1..(i - 1) : other[j] = chosen[j])
                            => chosen[i].alt <= other[i].alt

\* the reading splits at two places and the longer candidate came first
C10_Witness ==
    /\ YomidictDone
    /\ result.status = "return"
    /\ Len(args[1]) = 2
    /\ \E a, b \in AllParses(PatternOf(args[1]), 1, args[2], 1) : a[1].end < b[1].end
    /\ Len(result.value[<<args[1][1]>>]) = 2


=============================================================================
